---- MODULE Spec2Model ----
(***************************************************************************)
(* Model of tree_library/json_tree_modified.py: the three tree builders    *)
(* (construct_json, construct_with_yl, detailed_tree), the labeler         *)
(* (add_label / recur_add_label) and the driver create_json_tree.          *)
(*                                                                         *)
(* Representation.                                                         *)
(*  - A Python str is a sequence of one-character strings, so that         *)
(*    formatting, joining and lexicographic comparison are computed.       *)
(*  - A Python dict is [type |-> "dict", items |-> <<[k |-> key, v |-> val]*)
(*    ...>>], the items in insertion order; a list is [type |-> "list",    *)
(*    items |-> <<...>>]; a str stored as a dict value is [type |-> "str", *)
(*    items |-> <<chars>>].  The type tag is what isinstance() reads.      *)
(*  - A csv row is the tuple of its column values; a field name is the     *)
(*    position of its column, so row[all_fields[i]] is row[i + 1] here.    *)
(*    Every row is as wide as the header, and the header has at least      *)
(*    DEPTH columns.                                                       *)
(*  - Opening and reading the csv file and writing a json document are     *)
(*    steps that succeed; the one failure modelled is the IndexError       *)
(*    construct_with_yl raises on a header of DEPTH columns.               *)
(***************************************************************************)
EXTENDS Integers, Sequences, FiniteSets, TLC

VARIABLES
    fieldnames,       \* csvReader.fieldnames: the column positions 1..n of the header
    data,             \* the rows of the csv file, in file order
    pc,               \* position of create_json_tree
    row_idx,          \* rows the running builder's `for row in data` has consumed
    struct_json,      \* construct_json's `output`
    labeled_json,     \* add_label's `output`
    node_id,          \* add_label's serial counters, <<>> while no call has made them
    yl_output,        \* construct_with_yl's `output`
    cur_idx,          \* construct_with_yl's `cur_idx`
    dis_idx,          \* construct_with_yl's `dis_idx`
    year_level_dict,  \* construct_with_yl's `year_level_dict`
    detailed_json,    \* detailed_tree's `output`
    written,          \* the documents write_json has written
    runs,             \* the outputs of the add_label calls made so far
    given             \* history: the dis_idx line 111 gave to each row consumed so far

vars == <<fieldnames, data, pc, row_idx, struct_json, labeled_json, node_id,
          yl_output, cur_idx, dis_idx, year_level_dict, detailed_json, written, runs,
          given>>

----------------------------------------------------------------------------
(* Program constants *)

FNAME_STRUCT == "structure"
FNAME_DISPLAY == "struct_year_level"
FNAME_PROCESS == "detailed_tree"

DEPTH == 4
IDX_CONTENT_TAG == -2
IDX_YEAR_LEVEL == -1
IDX_SUBTOPIC == 1

----------------------------------------------------------------------------
(* Bounds of the model *)

MaxRows == 3    \* rows in the csv file
MaxRuns == 2    \* successive add_label calls on one tree

----------------------------------------------------------------------------
(* Python strings *)

\* The characters the model uses, in code point order.
CharOrder ==
    <<" ", ".", "0", "1", "2", "3", "4", "5", "6", "7", "8", "9", ":",
      "A", "Y", "e", "l", "p", "q", "r", "s", "t", "u", "v", "w", "x", "y", "z">>

Ord(c) == CHOOSE n \in 1..Len(CharOrder) : CharOrder[n] = c

\* a < b on Python strings: code point order at the first difference, a proper
\* prefix first.
StrLess(a, b) ==
    \E n \in 1..Len(b) :
        /\ \A m \in 1..(n - 1) : m <= Len(a) /\ a[m] = b[m]
        /\ \/ n = Len(a) + 1
           \/ n <= Len(a) /\ Ord(a[n]) < Ord(b[n])

Digits == <<"0", "1", "2", "3", "4", "5", "6", "7", "8", "9">>

\* f"{n}" for an int n >= 0
RECURSIVE IntStr(_)
IntStr(n) ==
    IF n < 10 THEN <<Digits[n + 1]>>
    ELSE IntStr(n \div 10) \o <<Digits[(n % 10) + 1]>>

\* sep.join(parts)
RECURSIVE Join(_, _)
Join(sep, parts) ==
    IF parts = <<>> THEN <<>>
    ELSE IF Len(parts) = 1 THEN parts[1]
    ELSE parts[1] \o sep \o Join(sep, Tail(parts))

\* Sorting that puts a shorter string first, as sorting by number would
RECURSIVE SortedShortFirst(_)
SortedShortFirst(S) ==
    IF S = {} THEN <<>>
    ELSE LET before(a, b) == Len(a) < Len(b) \/ (Len(a) = Len(b) /\ StrLess(a, b))
             least == CHOOSE a \in S : \A b \in S \ {a} : before(a, b)
         IN  <<least>> \o SortedShortFirst(S \ {least})

\* sorted(list(val)) for a set of strings
RECURSIVE SortedList(_)
SortedList(S) ==
    IF S = {} THEN <<>>
    ELSE LET least == CHOOSE a \in S : \A b \in S \ {a} : StrLess(a, b)
         IN  <<least>> \o SortedList(S \ {least})

\* seq[k] with Python's indexing: from 0, negative k counted from the end
PyIndex(seq, k) == IF k < 0 THEN seq[Len(seq) + k + 1] ELSE seq[k + 1]

----------------------------------------------------------------------------
(* Python dicts and lists *)

MkDict(items) == [type |-> "dict", items |-> items]
MkList(items) == [type |-> "list", items |-> items]
MkStr(chars) == [type |-> "str", items |-> chars]

EmptyDict == MkDict(<<>>)
EmptyList == MkList(<<>>)

\* `key in d`
Has(d, key) == \E n \in 1..Len(d.items) : d.items[n].k = key

\* d[key]
Get(d, key) == d.items[CHOOSE n \in 1..Len(d.items) : d.items[n].k = key].v

\* d[key] = val: a present key keeps its place, a new key goes last
Put(d, key, val) ==
    IF Has(d, key)
    THEN MkDict([n \in 1..Len(d.items) |->
                    IF d.items[n].k = key THEN [k |-> key, v |-> val] ELSE d.items[n]])
    ELSE MkDict(Append(d.items, [k |-> key, v |-> val]))

\* `x in lst`
InList(lst, x) == \E n \in 1..Len(lst.items) : lst.items[n] = x

\* lst.append(x)
ListAppend(lst, x) == MkList(Append(lst.items, x))

\* A key of a topic element of construct_with_yl, whose keys are the topic (a str)
\* and the display indices (ints): 1 and "1" are different keys.
StrKey(s) == [isInt |-> FALSE, n |-> 0, s |-> s]
IntKey(n) == [isInt |-> TRUE, n |-> n, s |-> <<>>]

----------------------------------------------------------------------------
(* construct_json *)

\* construct_json without the membership test of line 50
AppendAlways(lst, x) == ListAppend(lst, x)

\* lines 50-51: append unless already present
AppendIfAbsent(lst, x) == IF InList(lst, x) THEN lst ELSE ListAppend(lst, x)

\* lines 37-51, the body of `for row in data`, from the field at position `level`
\* of all_fields on: what the walk makes of the mapping `track` it stands on.
RECURSIVE PlainInsert(_, _, _, _)
PlainInsert(track, row, all_fields, level) ==
    LET next_node == row[all_fields[level]]
    IN  IF level < Len(all_fields) - 1
        THEN \* lines 37-41: one of the first layers
             LET child == IF Has(track, next_node) THEN Get(track, next_node) ELSE EmptyDict
             IN  Put(track, next_node, PlainInsert(child, row, all_fields, level + 1))
        ELSE \* lines 45-51: the array layer
             LET arr == IF Has(track, next_node) THEN Get(track, next_node) ELSE EmptyList
                 sub_content == row[all_fields[Len(all_fields)]]
             IN  Put(track, next_node, AppendIfAbsent(arr, sub_content))

\* line 30: data.fieldnames[:depth]
FieldPrefix(names, depth) == SubSeq(names, 1, IF depth < Len(names) THEN depth ELSE Len(names))

ConstructJsonRow(output, row, names, depth) ==
    PlainInsert(output, row, FieldPrefix(names, depth), 1)

\* construct_json(data, depth), the loop run over all rows
RECURSIVE ConstructJsonFrom(_, _, _, _)
ConstructJsonFrom(output, rows, names, depth) ==
    IF rows = <<>> THEN output
    ELSE ConstructJsonFrom(ConstructJsonRow(output, Head(rows), names, depth),
                           Tail(rows), names, depth)

construct_json(rows, names, depth) == ConstructJsonFrom(EmptyDict, rows, names, depth)

----------------------------------------------------------------------------
(* construct_with_yl *)

AllLevels == <<"A", "l", "l", " ", "l", "e", "v", "e", "l", "s">>

\* f"Y{year_level}"
YearToken(year_level) == <<"Y">> \o year_level

\* line 75: f"Y{year_level} {next_tag}"
Entry(year_level, next_tag) == <<"Y">> \o year_level \o <<" ">> \o next_tag

\* line 67
YearLevelDictInit == MkDict(<<[k |-> AllLevels, v |-> {}]>>)

\* lines 78-81
RecordYearLevel(yld, subtopic, year_level) ==
    LET d1 == IF Has(yld, subtopic) THEN yld ELSE Put(yld, subtopic, {})
        d2 == Put(d1, subtopic, Get(d1, subtopic) \cup {YearToken(year_level)})
    IN  Put(d2, AllLevels, Get(d2, AllLevels) \cup {YearToken(year_level)})

\* lines 98-103: the last position of `track` whose element has the key next_node,
\* or the incoming cur_idx when there is none (positions from 0)
FindTopic(track, next_node, idx) ==
    LET hits == {n \in 1..Len(track.items) : Has(track.items[n], StrKey(next_node))}
    IN  IF hits = {} THEN idx
        ELSE (CHOOSE n \in hits : \A m \in hits : m <= n) - 1

NodeExists(track, next_node) ==
    \E n \in 1..Len(track.items) : Has(track.items[n], StrKey(next_node))

\* The display index counted over the entries alone, the topic key left out
DisplayIndexOfEntries(element) == Len(element.items) - 1

\* line 111: dis_idx = len(track), track being the topic element
DisplayIndex(element) == Len(element.items)

\* The index string overwritten where line 122 appends
TagIndexOverwrite(track, next_node, idx) == Put(track, next_node, MkStr(IntStr(idx)))

\* lines 119-122
TagIndex(track, next_node, idx) ==
    IF ~Has(track, next_node)
    THEN Put(track, next_node, MkStr(IntStr(idx)))
    ELSE Put(track, next_node, MkStr(Get(track, next_node).items \o <<" ">> \o IntStr(idx)))

\* lines 69-123, the body of `for row in data`, on the loop's variables
YlRow(st, row, all_fields) ==
    LET next_tag == row[PyIndex(all_fields, IDX_CONTENT_TAG)]
        year_level == row[PyIndex(all_fields, IDX_YEAR_LEVEL)]
        subtopic == row[PyIndex(all_fields, IDX_SUBTOPIC)]
        entry == Entry(year_level, next_tag)
        yld == RecordYearLevel(st.year_level_dict, subtopic, year_level)
        \* lines 84-93, i = 0
        node0 == row[all_fields[1]]
        out0 == IF Has(st.output, node0) THEN st.output ELSE Put(st.output, node0, EmptyDict)
        track0 == Get(out0, node0)
        \* lines 84-93, i = 1
        node1 == row[all_fields[2]]
        fresh == ~Has(track0, node1)
        track0b == IF fresh THEN Put(track0, node1, EmptyList) ELSE track0
        idx0 == IF fresh THEN -1 ELSE st.cur_idx
        track1 == Get(track0b, node1)
        \* lines 96-108
        topic == row[all_fields[DEPTH]]
        found == NodeExists(track1, topic)
        idx1 == FindTopic(track1, topic, idx0)
        track1b == IF found THEN track1
                   ELSE ListAppend(track1, MkDict(<<[k |-> StrKey(topic), v |-> EmptyDict]>>))
        idx2 == IF found THEN idx1 ELSE Len(track1b.items) - 1
        \* lines 110-112
        element == track1b.items[idx2 + 1]
        dis == DisplayIndex(element)
        element1 == Put(element, IntKey(dis), MkStr(entry))
        \* lines 115-122
        inner == Get(element1, StrKey(topic))
        tag_key == row[all_fields[DEPTH + 1]]
        element2 == Put(element1, StrKey(topic), TagIndex(inner, tag_key, dis))
        \* the mutations above, seen from `output`
        track1c == MkList([track1b.items EXCEPT ![idx2 + 1] = element2])
        track0c == Put(track0b, node1, track1c)
    IN  [output |-> Put(out0, node0, track0c),
         cur_idx |-> idx2,
         dis_idx |-> dis + 1,          \* line 123
         year_level_dict |-> yld]

\* The summary loop writing into a mapping of its own
RECURSIVE YlSummaryAlone(_, _)
YlSummaryAlone(output, items) ==
    IF items = <<>> THEN EmptyDict
    ELSE Put(YlSummaryAlone(output, SubSeq(items, 1, Len(items) - 1)),
             items[Len(items)].k,
             MkStr(Join(<<" ">>, SortedList(items[Len(items)].v))))

\* The summary loop with empty sets left out
RECURSIVE YlSummarySkipEmpty(_, _)
YlSummarySkipEmpty(output, items) ==
    IF items = <<>> THEN output
    ELSE YlSummarySkipEmpty(
             IF Head(items).v = {} THEN output
             ELSE Put(output, Head(items).k, MkStr(Join(<<" ">>, SortedList(Head(items).v)))),
             Tail(items))

\* lines 126-129: the summaries written into the root
RECURSIVE YlSummary(_, _)
YlSummary(output, items) ==
    IF items = <<>> THEN output
    ELSE YlSummary(Put(output, Head(items).k,
                       MkStr(Join(<<" ">>, SortedList(Head(items).v)))),
                   Tail(items))

----------------------------------------------------------------------------
(* detailed_tree *)

\* detailed_tree with construct_json's membership test before the append
DetailedAppendOnce(lst, x) == IF InList(lst, x) THEN lst ELSE ListAppend(lst, x)

\* line 159: append, whatever the array holds
DetailedAppend(lst, x) == ListAppend(lst, x)

\* lines 146-159, the body of `for row in data`, from the field at position
\* `level` of all_fields on.
RECURSIVE DetailedInsert(_, _, _, _, _)
DetailedInsert(track, row, all_fields, depth, level) ==
    IF level <= depth /\ level <= Len(all_fields)
    THEN \* lines 149-153
         LET next_node == row[all_fields[level]]
             child == IF Has(track, next_node) THEN Get(track, next_node) ELSE EmptyDict
         IN  Put(track, next_node, DetailedInsert(child, row, all_fields, depth, level + 1))
    ELSE \* lines 156-159
         LET year_level == YearToken(row[PyIndex(all_fields, -1)])
             arr == IF Has(track, year_level) THEN Get(track, year_level) ELSE EmptyList
         IN  Put(track, year_level, DetailedAppend(arr, row[PyIndex(all_fields, -2)]))

DetailedRow(output, row, all_fields, depth) ==
    DetailedInsert(output, row, all_fields, depth, 1)

----------------------------------------------------------------------------
(* add_label, recur_add_label *)

\* Counters made once and kept from call to call
NodeIdKept == IF node_id = <<>> THEN [n \in 1..DEPTH |-> 1] ELSE node_id

\* line 169: [1 for i in range(DEPTH)]
NodeIdInit == [n \in 1..DEPTH |-> 1]

\* lines 181 and 190: f"{depth+1}.{node_id[depth]}: {key}"
LabelOf(depth, node_id_, key) ==
    IntStr(depth + 1) \o <<".">> \o IntStr(node_id_[depth + 1]) \o <<":", " ">> \o key

\* The increment, with the numbering of the deeper layers restarted: serials local
\* to a parent
BumpAndRestart(node_id_, depth) ==
    [n \in 1..Len(node_id_) |->
        IF n = depth + 1 THEN node_id_[n] + 1
        ELSE IF n > depth + 1 THEN 1 ELSE node_id_[n]]

\* lines 182 and 192: node_id[depth] += 1
Bump(node_id_, depth) == [node_id_ EXCEPT ![depth + 1] = @ + 1]

\* lines 189-192: the labels of the elements of a terminal array
RECURSIVE LabelLeaves(_, _, _, _)
LabelLeaves(track, nodes, depth, node_id_) ==
    IF nodes = <<>> THEN [track |-> track, node_id |-> node_id_]
    ELSE LabelLeaves(ListAppend(track, LabelOf(depth, node_id_, Head(nodes))),
                     Tail(nodes), depth, Bump(node_id_, depth))

\* lines 178-199: recur_add_label, and its loop over val.items() (lines 198-199
\* and 172-173); each gives the mapping `track` and the counters it leaves.
RECURSIVE recur_add_label(_, _, _, _, _)
RECURSIVE LabelItems(_, _, _, _)
recur_add_label(track, key, val, depth, node_id_) ==
    LET labeled_node == LabelOf(depth, node_id_, key)
        ids == Bump(node_id_, depth)
        below == IF val.type = "list"
                 THEN LabelLeaves(EmptyList, val.items, depth + 1, ids)
                 ELSE LabelItems(EmptyDict, val.items, depth + 1, ids)
    IN  [track |-> Put(track, labeled_node, below.track), node_id |-> below.node_id]

LabelItems(track, items, depth, node_id_) ==
    IF items = <<>> THEN [track |-> track, node_id |-> node_id_]
    ELSE LET first == recur_add_label(track, Head(items).k, Head(items).v, depth, node_id_)
         IN  LabelItems(first.track, Tail(items), depth, first.node_id)

\* lines 164-175
add_label(tree) == LabelItems(EmptyDict, tree.items, 0, NodeIdInit)

----------------------------------------------------------------------------
(* The csv files of the model *)

\* Sample rows, seven columns wide: two hierarchy columns, a third one that
\* construct_with_yl skips, the topic (column DEPTH - 1), the column DEPTH that
\* keys the index strings, the content tag and the year level.  A narrower file
\* holds their prefixes, so that its last two columns are the tag and the year.
\* The rows repeat prefixes, topics, keys, tags and year levels, order "10" before
\* "9" as strings, and use a subtopic name and "All levels" as a first-column value.
WideRows ==
    { << <<"x">>, <<"y">>, <<"p">>, <<"q">>, <<"v">>, <<"t">>, <<"9">> >>,
      << <<"x">>, <<"y">>, <<"p">>, <<"q">>, <<"v">>, <<"t">>, <<"1", "0">> >>,
      << <<"x">>, <<"y">>, <<"p">>, <<"r">>, <<"v">>, <<"u">>, <<"9">> >>,
      << <<"w">>, <<"z">>, <<"p">>, <<"q">>, <<"v">>, <<"t">>, <<"9">> >>,
      << <<"y">>, <<"y">>, <<"p">>, <<"q">>, <<"e">>, <<"u">>, <<"9">> >>,
      << <<"x">>, <<"y">>, <<"s">>, <<"q">>, <<"e">>, <<"u">>, <<"1", "0">> >>,
      << AllLevels, <<"y">>, <<"p">>, <<"q">>, <<"v">>, <<"t">>, <<"9">> >>,
      << <<"x">>, AllLevels, <<"p">>, <<"q">>, <<"v">>, <<"t">>, <<"1", "0">> >> }

\* Header widths: DEPTH columns are too few for construct_with_yl
Widths == DEPTH..(DEPTH + 3)

\* The rows of a file whose header has n columns
RowsOf(n) == {SubSeq(r, 1, n) : r \in WideRows}

Files(n) == UNION {[1..len -> RowsOf(n)] : len \in 0..MaxRows}

----------------------------------------------------------------------------
(* create_json_tree *)

TypeOK ==
    /\ pc \in {"construct_json", "write_structure", "construct_with_yl", "write_display",
               "detailed_tree", "done", "failed", "labeler"}
    /\ row_idx \in 0..Len(data)
    /\ written \subseteq {FNAME_STRUCT, FNAME_DISPLAY, FNAME_PROCESS}

Locals ==
    /\ row_idx = 0
    /\ labeled_json = EmptyDict
    /\ node_id = <<>>
    /\ yl_output = EmptyDict          \* line 62
    /\ cur_idx = -1                   \* line 64
    /\ dis_idx = 0                    \* line 65
    /\ year_level_dict = YearLevelDictInit
    /\ detailed_json = EmptyDict      \* line 141
    /\ written = {}
    /\ runs = <<>>
    /\ given = <<>>

Init ==
    /\ \E n \in Widths :
          /\ fieldnames = [c \in 1..n |-> c]
          /\ data \in Files(n)
    /\ pc = "construct_json"
    /\ struct_json = EmptyDict        \* line 29
    /\ Locals

\* lines 32-51: construct_json takes the next row
ConstructJsonStep ==
    /\ pc = "construct_json"
    /\ row_idx < Len(data)
    /\ struct_json' = ConstructJsonRow(struct_json, data[row_idx + 1], fieldnames, DEPTH)
    /\ row_idx' = row_idx + 1
    /\ UNCHANGED <<fieldnames, data, pc, labeled_json, node_id, yl_output, cur_idx,
                   dis_idx, year_level_dict, detailed_json, written, runs, given>>

\* lines 53 and 219: construct_json returns and add_label labels its output
AddLabel ==
    /\ pc = "construct_json"
    /\ row_idx = Len(data)
    /\ LET out == add_label(struct_json)
       IN  /\ labeled_json' = out.track
           /\ node_id' = out.node_id
           /\ runs' = Append(runs, out.track)
    /\ pc' = "write_structure"
    /\ UNCHANGED <<fieldnames, data, row_idx, struct_json, yl_output, cur_idx, dis_idx,
                   year_level_dict, detailed_json, written, given>>

\* line 220, then lines 223-226 up to the first row of construct_with_yl
WriteStructure ==
    /\ pc = "write_structure"
    /\ written' = written \cup {FNAME_STRUCT}
    /\ pc' = "construct_with_yl"
    /\ row_idx' = 0
    /\ UNCHANGED <<fieldnames, data, struct_json, labeled_json, node_id, yl_output,
                   cur_idx, dis_idx, year_level_dict, detailed_json, runs, given>>

\* lines 69-123: construct_with_yl takes the next row
ConstructWithYlStep ==
    /\ pc = "construct_with_yl"
    /\ row_idx < Len(data)
    /\ Len(fieldnames) > DEPTH
    /\ LET st == YlRow([output |-> yl_output, cur_idx |-> cur_idx, dis_idx |-> dis_idx,
                        year_level_dict |-> year_level_dict],
                       data[row_idx + 1], fieldnames)
       IN  /\ yl_output' = st.output
           /\ cur_idx' = st.cur_idx
           /\ dis_idx' = st.dis_idx
           /\ year_level_dict' = st.year_level_dict
           /\ given' = Append(given, st.dis_idx - 1)
    /\ row_idx' = row_idx + 1
    /\ UNCHANGED <<fieldnames, data, pc, struct_json, labeled_json, node_id,
                   detailed_json, written, runs>>

\* line 116: all_fields[DEPTH] raises IndexError when the header has only DEPTH
\* columns; nothing catches it, create_json_tree ends there
ConstructWithYlRaises ==
    /\ pc = "construct_with_yl"
    /\ row_idx < Len(data)
    /\ Len(fieldnames) <= DEPTH
    /\ pc' = "failed"
    /\ UNCHANGED <<fieldnames, data, row_idx, struct_json, labeled_json, node_id, yl_output,
                   cur_idx, dis_idx, year_level_dict, detailed_json, written, runs, given>>

\* lines 125-131: the summaries go into the root and construct_with_yl returns
ConstructWithYlReturn ==
    /\ pc = "construct_with_yl"
    /\ row_idx = Len(data)
    /\ yl_output' = YlSummary(yl_output, year_level_dict.items)
    /\ pc' = "write_display"
    /\ UNCHANGED <<fieldnames, data, row_idx, struct_json, labeled_json, node_id, cur_idx,
                   dis_idx, year_level_dict, detailed_json, written, runs, given>>

\* line 227, then lines 230-233 up to the first row of detailed_tree
WriteDisplay ==
    /\ pc = "write_display"
    /\ written' = written \cup {FNAME_DISPLAY}
    /\ pc' = "detailed_tree"
    /\ row_idx' = 0
    /\ UNCHANGED <<fieldnames, data, struct_json, labeled_json, node_id, yl_output,
                   cur_idx, dis_idx, year_level_dict, detailed_json, runs, given>>

\* lines 144-159: detailed_tree takes the next row
DetailedTreeStep ==
    /\ pc = "detailed_tree"
    /\ row_idx < Len(data)
    /\ detailed_json' = DetailedRow(detailed_json, data[row_idx + 1], fieldnames, DEPTH)
    /\ row_idx' = row_idx + 1
    /\ UNCHANGED <<fieldnames, data, pc, struct_json, labeled_json, node_id, yl_output,
                   cur_idx, dis_idx, year_level_dict, written, runs, given>>

\* lines 161 and 234: detailed_tree returns and its output is written
WriteProcess ==
    /\ pc = "detailed_tree"
    /\ row_idx = Len(data)
    /\ written' = written \cup {FNAME_PROCESS}
    /\ pc' = "done"
    /\ UNCHANGED <<fieldnames, data, row_idx, struct_json, labeled_json, node_id, yl_output,
                   cur_idx, dis_idx, year_level_dict, detailed_json, runs, given>>

Next ==
    \/ ConstructJsonStep
    \/ AddLabel
    \/ WriteStructure
    \/ ConstructWithYlStep
    \/ ConstructWithYlRaises
    \/ ConstructWithYlReturn
    \/ WriteDisplay
    \/ DetailedTreeStep
    \/ WriteProcess

Spec == Init /\ [][Next]_vars

----------------------------------------------------------------------------
(* The labeler called again and again on one construct_json output *)

InitLabeler ==
    /\ \E n \in Widths :
          /\ fieldnames = [c \in 1..n |-> c]
          /\ data \in Files(n)
    /\ pc = "labeler"
    /\ struct_json = construct_json(data, fieldnames, DEPTH)
    /\ Locals

\* lines 164-175: one call add_label(struct_json)
LabelerRun ==
    /\ pc = "labeler"
    /\ Len(runs) < MaxRuns
    /\ LET out == add_label(struct_json)
       IN  /\ labeled_json' = out.track
           /\ node_id' = out.node_id
           /\ runs' = Append(runs, out.track)
    /\ UNCHANGED <<fieldnames, data, pc, row_idx, struct_json, yl_output, cur_idx, dis_idx,
                   year_level_dict, detailed_json, written, given>>

NextLabeler == LabelerRun

SpecLabeler == InitLabeler /\ [][NextLabeler]_vars

----------------------------------------------------------------------------
(* Properties *)

\* The rows construct_json has consumed
PlainSeen == IF pc = "construct_json" THEN SubSeq(data, 1, row_idx) ELSE data

\* The rows detailed_tree has consumed
DetailedSeen ==
    IF pc = "detailed_tree" THEN SubSeq(data, 1, row_idx)
    ELSE IF pc = "done" THEN data ELSE <<>>

\* The values of s in order of first occurrence, each once
RECURSIVE FirstOccurrences(_)
FirstOccurrences(s) ==
    IF s = <<>> THEN <<>>
    ELSE LET front == SubSeq(s, 1, Len(s) - 1)
             last == s[Len(s)]
         IN  IF \E m \in 1..Len(front) : front[m] = last
             THEN FirstOccurrences(front)
             ELSE Append(FirstOccurrences(front), last)

\* Column col of the rows that agree with row `like` on the columns in `on`
ColumnOfMatching(rows, like, on, col) ==
    LET same(r) == \A c \in on : r[c] = like[c]
        kept == SelectSeq(rows, same)
    IN  [n \in 1..Len(kept) |-> kept[n][col]]

\* v is a mapping with exactly the keys in S, none twice
KeysAre(v, S) ==
    /\ v.type = "dict"
    /\ {v.items[n].k : n \in 1..Len(v.items)} = S
    /\ Len(v.items) = Cardinality(S)

\* C1: at every point of construct_json (depth 4), and so in what it returns, the
\* output is a three-level mapping over the (col0, col1, col2) prefixes of the rows
\* consumed, and the array at each prefix is the list of the col3 values of the
\* consumed rows with that prefix, in order of first occurrence, none twice.
C1_PlainArraysFirstOccurrence ==
    LET seen == PlainSeen
        rows == {seen[n] : n \in 1..Len(seen)}
    IN  /\ KeysAre(struct_json, {r[1] : r \in rows})
        /\ \A r \in rows :
              LET l1 == Get(struct_json, r[1])
              IN  /\ KeysAre(l1, {q[2] : q \in {q \in rows : q[1] = r[1]}})
                  /\ LET l2 == Get(l1, r[2])
                     IN  /\ KeysAre(l2, {q[3] : q \in {q \in rows : q[1] = r[1] /\ q[2] = r[2]}})
                         /\ LET arr == Get(l2, r[3])
                                col3 == ColumnOfMatching(seen, r, {1, 2, 3}, 4)
                            IN  /\ arr.type = "list"
                                /\ arr.items = FirstOccurrences(col3)
                                /\ \A m, n \in 1..Len(arr.items) :
                                      arr.items[m] = arr.items[n] => m = n

\* C1 witness: construct_json has returned {"x": {"y": {"p": ["q", "r"]}}} from
\* three rows, the third of which repeats the first one's col3 value
C1_Witness ==
    /\ pc = "write_structure"
    /\ Len(data) = 3
    /\ data[1][4] = data[3][4]
    /\ struct_json =
         MkDict(<<[k |-> <<"x">>, v |->
            MkDict(<<[k |-> <<"y">>, v |->
               MkDict(<<[k |-> <<"p">>, v |-> MkList(<< <<"q">>, <<"r">> >>)]>>)]>>)]>>)

\* C2 as stated: on an empty record sequence all three builders return {}
C2_AllThreeEmpty ==
    (pc = "done" /\ data = <<>>) =>
        /\ struct_json = EmptyDict
        /\ yl_output = EmptyDict
        /\ detailed_json = EmptyDict

\* C2 amended: on an empty record sequence construct_json and detailed_tree
\* return {}, and construct_with_yl returns {"All levels": ""}
C2_EmptyInput ==
    (pc = "done" /\ data = <<>>) =>
        /\ struct_json = EmptyDict
        /\ detailed_json = EmptyDict
        /\ yl_output = MkDict(<<[k |-> AllLevels, v |-> MkStr(<<>>)]>>)

\* C2 witness: the three builders have run on a file with a header and no rows
C2_Witness == pc = "done" /\ data = <<>> /\ written = {FNAME_STRUCT, FNAME_DISPLAY, FNAME_PROCESS}

\* The number of strings in the terminal arrays of a tree
RECURSIVE LeafCount(_)
RECURSIVE LeafCountItems(_)
LeafCount(v) == IF v.type = "list" THEN Len(v.items) ELSE LeafCountItems(v.items)
LeafCountItems(items) ==
    IF items = <<>> THEN 0 ELSE LeafCount(Head(items).v) + LeafCountItems(Tail(items))

\* C5: at every point of detailed_tree (depth 4), and so in what it returns, the
\* array at path (col0, col1, col2, col3, "Y<last column>") of a consumed row is the
\* list of the second-to-last-column values of all consumed rows with that path,
\* in row order with repeats kept, and the lengths of all terminal arrays sum to
\* the number of consumed rows.
C5_DetailedKeepsDuplicates ==
    LET seen == DetailedSeen
        width == Len(fieldnames)
    IN  /\ LeafCount(detailed_json) = Len(seen)
        /\ \A n \in 1..Len(seen) :
              LET r == seen[n]
                  node == Get(Get(Get(Get(detailed_json, r[1]), r[2]), r[3]), r[4])
                  arr == Get(node, <<"Y">> \o r[width])
              IN  /\ arr.type = "list"
                  /\ arr.items = ColumnOfMatching(seen, r, {1, 2, 3, 4, width}, width - 1)

\* C5 witness: detailed_tree has returned an array that holds a value twice
C5_Witness ==
    /\ pc = "done"
    /\ Len(data) = 3
    /\ data[1] = data[3]
    /\ data[2] # data[1]
    /\ LET r == data[1]
           node == Get(Get(Get(Get(detailed_json, r[1]), r[2]), r[3]), r[4])
           arr == Get(node, <<"Y">> \o r[Len(r)]).items
       IN  \E m, n \in 1..Len(arr) : m # n /\ arr[m] = arr[n]

\* C6 as stated: whenever a builder pass of create_json_tree has failed, none of
\* the three documents has been written
C6_NoPartialOutput == pc = "failed" => written = {}

\* construct_with_yl has returned
YlReturned == pc \in {"write_display", "detailed_tree", "done"}

\* The strings of S in ascending order: the one in place n has n - 1 smaller ones
Ascending(S) ==
    [n \in 1..Cardinality(S) |->
        CHOOSE t \in S : Cardinality({u \in S : StrLess(u, t)}) = n - 1]

\* The tokens "Y<year_level>" of the rows of the file that satisfy keep
TokensOf(keep(_)) ==
    {<<"Y">> \o data[n][Len(fieldnames)] : n \in {m \in 1..Len(data) : keep(data[m])}}

\* C3: in what construct_with_yl returns, the root key "All levels" holds the
\* tokens "Y<year_level>" of all rows, each once, in ascending lexicographic order,
\* joined by single spaces, whatever the first-column and subtopic values are.
C3_AllLevelsSummary ==
    YlReturned =>
        /\ Has(yl_output, AllLevels)
        /\ LET val == Get(yl_output, AllLevels)
               every(r) == TRUE
               tokens == Ascending(TokensOf(every))
           IN  /\ val.type = "str"
               /\ val.items = Join(<<" ">>, tokens)
               /\ \A m, n \in 1..Len(tokens) : m < n => StrLess(tokens[m], tokens[n])

\* C3 witness: construct_with_yl has returned "Y10 Y9" under "All levels" from
\* three rows, two of one year level, with "All levels" as a first-column value
\* and as a subtopic
C3_Witness ==
    /\ YlReturned
    /\ Len(data) = 3
    /\ \E m, n \in 1..3 : m # n /\ data[m][Len(fieldnames)] = data[n][Len(fieldnames)]
    /\ \E n \in 1..3 : data[n][1] = AllLevels
    /\ \E n \in 1..3 : data[n][2] = AllLevels
    /\ Get(yl_output, AllLevels) = MkStr(<<"Y", "1", "0", " ", "Y", "9">>)

\* The keys of a mapping, in insertion order
Keys(d) == [n \in 1..Len(d.items) |-> d.items[n].k]

\* The keys, or array elements, at depth d of a tree, in depth-first insertion order
RECURSIVE AtDepth(_, _)
RECURSIVE AtDepthItems(_, _)
AtDepth(v, d) ==
    IF v.type = "list" THEN (IF d = 0 THEN v.items ELSE <<>>)
    ELSE IF d = 0 THEN Keys(v) ELSE AtDepthItems(v.items, d)
AtDepthItems(items, d) ==
    IF items = <<>> THEN <<>>
    ELSE AtDepth(Head(items).v, d - 1) \o AtDepthItems(Tail(items), d)

\* "<d+1>.<i>: <original>"
SerialLabel(d, i, original) ==
    IntStr(d + 1) \o <<".">> \o IntStr(i) \o <<":", " ">> \o original

\* lab is raw with the i-th key or element at every depth d, counted over all
\* parents, relabelled "<d+1>.<i>: <original>", and ids are the counters that
\* leaves: 1 plus the number of labels at each depth
LabelledPerDepth(raw, lab, ids) ==
    \A d \in 0..(DEPTH - 1) :
        LET originals == AtDepth(raw, d)
            labels == AtDepth(lab, d)
        IN  /\ Len(labels) = Len(originals)
            /\ \A i \in 1..Len(originals) : labels[i] = SerialLabel(d, i, originals[i])
            /\ ids[d + 1] = Len(originals) + 1

\* C4: add_label numbers globally per depth: the i-th key or array element at
\* depth d of construct_json's output, in depth-first insertion order over all
\* parents, is labelled "<d+1>.<i>: <original>", i from 1 without gaps, repeats or
\* restarts, and the depth-d counter ends at 1 plus the labels issued at depth d.
C4_GlobalPerDepthSerials ==
    pc \in {"write_structure", "construct_with_yl", "write_display", "detailed_tree",
            "done", "failed"} =>
        LabelledPerDepth(struct_json, labeled_json, node_id)

\* C4 witness: add_label has labelled a tree whose second root key has a child,
\* and that child's serial continues the first root key's children: "2.2: ..."
C4_Witness ==
    /\ pc = "write_structure"
    /\ Len(labeled_json.items) >= 2
    /\ Len(struct_json.items[1].v.items) = 1
    /\ SubSeq(labeled_json.items[2].v.items[1].k, 1, 5) = <<"2", ".", "2", ":", " ">>

\* C7 as stated: on a non-empty tree the second add_label run on the same raw
\* output gives a result that differs from the first run's
C7_SecondRunDiffers ==
    (Len(runs) >= 2 /\ struct_json # EmptyDict) => runs[2] # runs[1]

\* C7 amended: every add_label run on the same raw construct_json output starts
\* its serials at 1 again and leaves the counters at 1 plus the labels of each
\* depth, so a second run returns what the first returned.
C7_RunsAgree ==
    /\ \A n \in 1..Len(runs) : LabelledPerDepth(struct_json, runs[n], node_id)
    /\ \A n \in 1..Len(runs) : runs[n] = runs[1]

\* C7 witness: add_label has run twice on a non-empty tree
C7_Witness == Len(runs) = 2 /\ Len(struct_json.items) >= 2

\* The topic element construct_with_yl finds or creates for a row (lines 96-110),
\* as it is before line 112 inserts the row's entry, in the output `out`
ElementFor(out, row) ==
    LET topic == StrKey(row[DEPTH])
        there == Has(out, row[1]) /\ Has(Get(out, row[1]), row[2])
        track == IF there THEN Get(Get(out, row[1]), row[2]).items ELSE <<>>
        hits == {n \in 1..Len(track) : Has(track[n], topic)}
    IN  IF hits = {} THEN MkDict(<<[k |-> topic, v |-> EmptyDict]>>)
        ELSE track[CHOOSE n \in hits : TRUE]

\* construct_with_yl consumes a row in this step
YlConsumes == pc = "construct_with_yl" /\ row_idx' = row_idx + 1

\* C8 as stated: the display index given to a row is the size, when the row is
\* processed, of the inner mapping under the topic key of the found-or-created
\* topic element (0 for the first row of a new topic)
C8_IndexIsInnerMappingSize ==
    [][YlConsumes =>
        LET row == data[row_idx + 1]
            element == ElementFor(yl_output, row)
        IN  dis_idx' - 1 = Len(Get(element, StrKey(row[DEPTH])).items)]_vars

\* C8 amended: the display index given to a row is the size, when the row is
\* processed, of the found-or-created topic element itself, which holds the topic
\* key and the entries inserted so far; the first row of a new topic gets 1, and
\* the row's entry "Y<year_level> <content_tag>" is inserted into that element
\* keyed by that numeric index, beside the entries already there.
C8_IndexIsElementSize ==
    [][YlConsumes =>
        LET row == data[row_idx + 1]
            width == Len(fieldnames)
            before == ElementFor(yl_output, row)
            after == ElementFor(yl_output', row)
            index == dis_idx' - 1
            entry == <<"Y">> \o row[width] \o <<" ">> \o row[width - 1]
        IN  /\ index = Len(before.items)
            /\ index >= 1
            /\ Len(before.items) = 1 <=> Get(before, StrKey(row[DEPTH])) = EmptyDict
            /\ ~Has(before, IntKey(index))
            /\ Len(after.items) = Len(before.items) + 1
            /\ after.items[Len(after.items)] = [k |-> IntKey(index), v |-> MkStr(entry)]
            /\ \A n \in 2..Len(before.items) : after.items[n] = before.items[n]]_vars

\* C8 witness: a topic element has taken its second entry, under display index 2
C8_Witness ==
    /\ pc = "construct_with_yl"
    /\ row_idx >= 2
    /\ given[1] = 1
    /\ given[row_idx] = 2
    /\ Has(ElementFor(yl_output, data[row_idx]), IntKey(2))

\* No first-column value of the file is a subtopic name of the file or "All levels"
NoKeyCollision ==
    \A m \in 1..Len(data) :
        /\ data[m][1] # AllLevels
        /\ \A n \in 1..Len(data) : data[m][1] # data[n][2]

\* Both parts of construct_with_yl's root: under each row's first-column value
\* the mapping whose key col1 holds the array with the row's topic element and
\* entry, and under each subtopic name and "All levels" its summary string
BothPartsIntact ==
    /\ \A m \in 1..Len(data) :
          LET row == data[m]
          IN  /\ Has(yl_output, row[1])
              /\ Get(yl_output, row[1]).type = "dict"
              /\ Has(Get(yl_output, row[1]), row[2])
              /\ Get(Get(yl_output, row[1]), row[2]).type = "list"
              /\ LET element == ElementFor(yl_output, row)
                 IN  /\ Has(element, IntKey(given[m]))
                     /\ Has(Get(element, StrKey(row[DEPTH])), row[DEPTH + 1])
    /\ \A name \in {data[m][2] : m \in 1..Len(data)} \cup {AllLevels} :
          LET under(r) == name = AllLevels \/ r[2] = name
          IN  /\ Has(yl_output, name)
              /\ Get(yl_output, name).type = "str"
              /\ Get(yl_output, name).items = Join(<<" ">>, Ascending(TokensOf(under)))

\* C9 as stated: for every record sequence the root returned by construct_with_yl
\* holds both parts, neither overwriting the other
C9_BothPartsAlways == YlReturned => BothPartsIntact

\* C9 amended: for every record sequence in which no first-column value equals a
\* subtopic name or "All levels", the root returned by construct_with_yl holds
\* both parts, neither overwriting the other.
C9_BothPartsWithoutCollision == (YlReturned /\ NoKeyCollision) => BothPartsIntact

\* C9 witness: construct_with_yl has returned from a file without such a
\* collision, with two first-column values and two subtopics
C9_Witness ==
    /\ YlReturned
    /\ NoKeyCollision
    /\ Cardinality({data[m][1] : m \in 1..Len(data)}) = 2
    /\ Cardinality({data[m][2] : m \in 1..Len(data)}) = 2
    /\ Len(yl_output.items) = 5

\* The positions, in row order, of the rows construct_with_yl has consumed that
\* satisfy hit
PositionsWhere(hit(_)) ==
    LET at == {m \in 1..Len(given) : hit(data[m])}
    IN  [n \in 1..Cardinality(at) |->
            CHOOSE m \in at : Cardinality({j \in at : j < m}) = n - 1]

\* C10: in construct_with_yl's output, while it is built and when it is returned,
\* every topic element holds under its topic key one index string per column-DEPTH
\* value: the display indices given to the rows with that (col0, col1, topic,
\* column-DEPTH value), in row order, joined by single spaces; each index listed
\* is a key of the same element and holds that row's entry; and the rows of one
\* element get pairwise different indices, each listed in exactly one string.
C10_IndexStrings ==
    \A a \in 1..Len(yl_output.items) :
      yl_output.items[a].v.type = "dict" =>
      \A b \in 1..Len(yl_output.items[a].v.items) :
        LET c0 == yl_output.items[a].k
            c1 == yl_output.items[a].v.items[b].k
            track == yl_output.items[a].v.items[b].v.items
            width == Len(fieldnames)
        IN  \A c \in 1..Len(track) :
              LET element == track[c]
                  topic == element.items[1].k.s
                  inner == element.items[1].v
                  here(r) == r[1] = c0 /\ r[2] = c1 /\ r[DEPTH] = topic
                  all == PositionsWhere(here)
              IN  /\ ~element.items[1].k.isInt
                  /\ Len(all) >= 1
                  /\ Len(element.items) = Len(all) + 1
                  /\ \A m, n \in 1..Len(all) : given[all[m]] = given[all[n]] => m = n
                  /\ {inner.items[n].k : n \in 1..Len(inner.items)}
                        = {data[all[n]][DEPTH + 1] : n \in 1..Len(all)}
                  /\ \A d \in 1..Len(inner.items) :
                        LET keyed(r) == here(r) /\ r[DEPTH + 1] = inner.items[d].k
                            mine == PositionsWhere(keyed)
                        IN  /\ inner.items[d].v.type = "str"
                            /\ inner.items[d].v.items =
                                  Join(<<" ">>, [n \in 1..Len(mine) |-> IntStr(given[mine[n]])])
                            /\ \A n \in 1..Len(mine) :
                                  LET row == data[mine[n]]
                                      entry == <<"Y">> \o row[width] \o <<" ">> \o row[width - 1]
                                  IN  /\ Has(element, IntKey(given[mine[n]]))
                                      /\ Get(element, IntKey(given[mine[n]])) = MkStr(entry)

\* C10 witness: an index string lists two display indices, "1 3", the row between
\* the two having gone to the same topic element under another column-DEPTH value
C10_Witness ==
    /\ YlReturned
    /\ Len(data) = 3
    /\ given = <<1, 2, 3>>
    /\ data[2][DEPTH + 1] # data[1][DEPTH + 1]
    /\ LET element == ElementFor(yl_output, data[1])
       IN  Get(Get(element, StrKey(data[1][DEPTH])), data[1][DEPTH + 1])
               = MkStr(<<"1", " ", "3">>)

====
